---- MODULE Spec2Model ----
(***************************************************************************)
(* rustc-hash: the three hasher variants (MumAddHasher = FxHasher,         *)
(* MultilinearHasher, PolyHasher), their shared byte mixer hash_bytes and  *)
(* the mixing primitive multiply_mix.                                      *)
(*                                                                         *)
(* A u64 is a little-endian sequence of 8 bytes, a u128 one of 16 bytes,   *)
(* a uN scalar one of N/8 bytes: TLC's integers are 32 bits wide, so all   *)
(* 64-bit wrapping arithmetic is done bytewise and keeps its full width.   *)
(* usize is 64 bits wide (target_pointer_width = "64").                    *)
(***************************************************************************)
EXTENDS Integers, Sequences, FiniteSets

VARIABLES variant, ctorA, ctorB, a, b, n, op, retA, retB, hb, rg

vars == <<variant, ctorA, ctorB, a, b, n, op, retA, retB, hb, rg>>

(***************************************************************************)
(* Fixed-width integer arithmetic on little-endian byte sequences.         *)
(***************************************************************************)

Byte == 0..255

\* Bit i (0 = least significant) of v.
BitOf(v, i) == (v \div (2 ^ i)) % 2

\* v1 ^ v2 and v1 | v2 on 4-bit values, bit by bit.
XorNibble ==
    [v1 \in 0..15 |-> [v2 \in 0..15 |->
        LET d(i) == IF BitOf(v1, i) # BitOf(v2, i) THEN 2 ^ i ELSE 0
        IN  d(0) + d(1) + d(2) + d(3)]]

OrNibble ==
    [v1 \in 0..15 |-> [v2 \in 0..15 |->
        LET d(i) == IF BitOf(v1, i) = 1 \/ BitOf(v2, i) = 1 THEN 2 ^ i ELSE 0
        IN  d(0) + d(1) + d(2) + d(3)]]

\* v1 ^ v2 on bytes.
XorByte(v1, v2) ==
    XorNibble[v1 % 16][v2 % 16] + 16 * XorNibble[v1 \div 16][v2 \div 16]

\* v1 | v2 on bytes.
OrByte(v1, v2) ==
    OrNibble[v1 % 16][v2 % 16] + 16 * OrNibble[v1 \div 16][v2 \div 16]

\* x ^ y on words of equal width.
Xor(x, y) == [i \in 1..Len(x) |-> XorByte(x[i], y[i])]

\* x | y on words of equal width.
Or(x, y) == [i \in 1..Len(x) |-> OrByte(x[i], y[i])]

\* `v as uW` for an unsigned v: zero-extension or truncation to w bytes.
Cast(v, w) == [i \in 1..w |-> IF i <= Len(v) THEN v[i] ELSE 0]

\* `v as u64`.
AsU64(v) == Cast(v, 8)

\* `(v >> 64) as u64` for a u128 v.
HighU64(v) == [i \in 1..8 |-> v[i + 8]]

\* A small natural number (below 2^31) as a u64: `len as u64`.
NatU64(k) == [i \in 1..8 |-> IF i <= 4 THEN (k \div (256 ^ (i - 1))) % 256 ELSE 0]

\* x << 8*k on a u64 (whole bytes), the bits shifted out are lost.
ShlBytes(x, k) == [i \in 1..8 |-> IF i > k THEN x[i - k] ELSE 0]

RECURSIVE AddDigits(_, _, _, _)
\* The bytes i.. of x + y with carry c into byte i; the carry out is dropped.
AddDigits(x, y, i, c) ==
    IF i > Len(x) THEN <<>>
    ELSE <<(x[i] + y[i] + c) % 256>>
             \o AddDigits(x, y, i + 1, (x[i] + y[i] + c) \div 256)

\* x.wrapping_add(y)
WrappingAdd(x, y) == AddDigits(x, y, 1, 0)

\* The sum of the byte products x[i] * y[j] that land in byte k of x * y.
MulColumn(x, y, k) ==
    LET p(i) == IF i <= k /\ k - i < 8 THEN x[i] * y[k + 1 - i] ELSE 0
    IN  p(1) + p(2) + p(3) + p(4) + p(5) + p(6) + p(7) + p(8)

RECURSIVE MulDigits(_, _, _, _)
\* The bytes k..16 of the 128-bit product x * y; t is column k plus the
\* carry into it.
MulDigits(x, y, k, t) ==
    IF k = 16 THEN <<t % 256>>
    ELSE <<t % 256>> \o MulDigits(x, y, k + 1, MulColumn(x, y, k + 1) + t \div 256)

\* (x as u128) * (y as u128): 16 bytes, exact.
FullMul(x, y) == MulDigits(x, y, 1, MulColumn(x, y, 1))

\* x.wrapping_mul(y): the low 64 bits of the product.
WrappingMul(x, y) == SubSeq(FullMul(x, y), 1, 8)

\* x.rotate_left(k) on a u64, 0 <= k < 64.
RotateLeft(x, k) ==
    LET q == k \div 8
        r == k % 8
        src(i) == x[((i - 1 - q + 16) % 8) + 1]
    IN  [i \in 1..8 |->
            ((src(i) * (2 ^ r)) % 256) + (src(i - 1) \div (2 ^ (8 - r)))]

\* x.rotate_right(k) on a u64, 0 < k < 64.
RotateRight(x, k) == RotateLeft(x, 64 - k)

\* A u64 literal, written most significant byte first as in the source.
U64(b7, b6, b5, b4, b3, b2, b1, b0) == <<b0, b1, b2, b3, b4, b5, b6, b7>>

Zero64 == U64(0, 0, 0, 0, 0, 0, 0, 0)

One64 == U64(0, 0, 0, 0, 0, 0, 0, 1)

(***************************************************************************)
(* Constants of the three source files.                                    *)
(***************************************************************************)

\* mum_add_hasher.rs: the sixteen words of pi the random stream adds up.
ENTROPY ==
    << U64(\H24, \H3f, \H6a, \H88, \H85, \Ha3, \H08, \Hd3),
       U64(\H13, \H19, \H8a, \H2e, \H03, \H70, \H73, \H44),
       U64(\Ha4, \H09, \H38, \H22, \H29, \H9f, \H31, \Hd0),
       U64(\H08, \H2e, \Hfa, \H98, \Hec, \H4e, \H6c, \H89),
       U64(\H45, \H28, \H21, \He6, \H38, \Hd0, \H13, \H77),
       U64(\Hbe, \H54, \H66, \Hcf, \H34, \He9, \H0c, \H6c),
       U64(\Hc0, \Hac, \H29, \Hb7, \Hc9, \H7c, \H50, \Hdd),
       U64(\H3f, \H84, \Hd5, \Hb5, \Hb5, \H47, \H09, \H17),
       U64(\H92, \H16, \Hd5, \Hd9, \H89, \H79, \Hfb, \H1b),
       U64(\Hd1, \H31, \H0b, \Ha6, \H98, \Hdf, \Hb5, \Hac),
       U64(\H2f, \Hfd, \H72, \Hdb, \Hd0, \H1a, \Hdf, \Hb7),
       U64(\Hb8, \He1, \Haf, \Hed, \H6a, \H26, \H7e, \H96),
       U64(\Hba, \H7c, \H90, \H45, \Hf1, \H2c, \H7f, \H99),
       U64(\H24, \Ha1, \H99, \H47, \Hb3, \H91, \H6c, \Hf7),
       U64(\H08, \H01, \Hf2, \He2, \H85, \H8e, \Hfc, \H16),
       U64(\H63, \H69, \H20, \Hd8, \H71, \H57, \H4e, \H69) >>

\* mum_add_hasher.rs: the lanes' start values and the zero guard of hash_bytes.
MumAdd_SEED1 == U64(\Ha4, \H58, \Hfe, \Ha3, \Hf4, \H93, \H3d, \H7e)

MumAdd_SEED2 == U64(\H0d, \H95, \H74, \H8f, \H72, \H8e, \Hb6, \H58)

MumAdd_PREVENT_TRIVIAL_ZERO_COLLAPSE == U64(\H71, \H8b, \Hcd, \H58, \H82, \H15, \H4a, \Hee)

\* multilinear_hasher.rs
Multilinear_SEED1 == U64(\H24, \H3f, \H6a, \H88, \H85, \Ha3, \H08, \Hd3)

Multilinear_SEED2 == U64(\H13, \H19, \H8a, \H2e, \H03, \H70, \H73, \H44)

Multilinear_SEED3 == U64(\Ha4, \H09, \H38, \H22, \H29, \H9f, \H31, \Hd0)

Multilinear_SEED4 == U64(\H08, \H2e, \Hfa, \H98, \Hec, \H4e, \H6c, \H89)

Multilinear_PREVENT_TRIVIAL_ZERO_COLLAPSE == U64(\H45, \H28, \H21, \He6, \H38, \Hd0, \H13, \H77)

\* poly_hasher.rs
Poly_SEED1 == U64(\H24, \H3f, \H6a, \H88, \H85, \Ha3, \H08, \Hd3)

Poly_SEED2 == U64(\H13, \H19, \H8a, \H2e, \H03, \H70, \H73, \H44)

Poly_PREVENT_TRIVIAL_ZERO_COLLAPSE == U64(\Ha4, \H09, \H38, \H22, \H29, \H9f, \H31, \Hd0)

\* poly_hasher.rs: the multiplier of the polynomial hash.
K == U64(\Hf1, \H35, \H7a, \Hea, \H2e, \H62, \Ha9, \Hc5)

Variants == {"MumAdd", "Multilinear", "Poly"}

\* The constants hash_bytes uses in the source file of variant v.
HashBytesConsts(v) ==
    CASE v = "MumAdd" ->
           [SEED1 |-> MumAdd_SEED1, SEED2 |-> MumAdd_SEED2,
            PTZC |-> MumAdd_PREVENT_TRIVIAL_ZERO_COLLAPSE]
      [] v = "Multilinear" ->
           [SEED1 |-> Multilinear_SEED1, SEED2 |-> Multilinear_SEED2,
            PTZC |-> Multilinear_PREVENT_TRIVIAL_ZERO_COLLAPSE]
      [] v = "Poly" ->
           [SEED1 |-> Poly_SEED1, SEED2 |-> Poly_SEED2,
            PTZC |-> Poly_PREVENT_TRIVIAL_ZERO_COLLAPSE]

(***************************************************************************)
(* multiply_mix: the 128-bit product folded to 64 bits by XOR.             *)
(***************************************************************************)

\* lo ^ hi for the 128-bit product full.
FoldProduct(full) == Xor(SubSeq(full, 1, 8), SubSeq(full, 9, 16))

multiply_mix(x, y) == FoldProduct(FullMul(x, y))

(***************************************************************************)
(* hash_bytes, one step per branch body or loop iteration.  The record of  *)
(* a run holds the input, the position (pc), the locals off, s0, s1, and   *)
(* what the run has touched: acc, the index ranges <<lo, hi>> (lo          *)
(* inclusive, hi exclusive) of its slice and index expressions, subs, the  *)
(* results of its usize subtractions, and reads, the byte indices whose    *)
(* value went into a lane.  An index out of range is a panic in Rust; a    *)
(* usize subtraction below zero panics (debug) or wraps to an index far    *)
(* out of range (release), so both end the run in pc = "panic".            *)
(***************************************************************************)

\* bytes[lo..hi] as a sequence (0-based half-open range of a 1-based sequence).
Slice(bytes, lo, hi) == [i \in 1..(hi - lo) |-> bytes[lo + i]]

\* uN::from_le_bytes: byte i of the array is bits 8i.. of the value.
FromLeBytes(s) == [i \in 1..Len(s) |-> s[i]]

\* The usize subtraction x - y of a run.
Minus(st, x, y) ==
    [st EXCEPT !.subs = @ \cup {x - y},
               !.pc = IF x < y THEN "panic" ELSE @]

\* The slice expression bytes[lo..hi] of a run (bytes[i] is bytes[i..i+1]).
Touch(st, lo, hi) ==
    LET len == Len(st.bytes)
        ok == 0 <= lo /\ lo <= hi /\ hi <= len
    IN  [st EXCEPT !.acc = @ \cup {<<lo, hi>>},
                   !.reads = @ \cup {i \in lo..(hi - 1) : 0 <= i /\ i < len},
                   !.pc = IF ok THEN @ ELSE "panic"]

\* The state of hash_bytes(bytes) on entry: len, s0, s1.
HbStart(k, bytes) ==
    [bytes |-> bytes, pc |-> "start", off |-> 0,
     s0 |-> k.SEED1, s1 |-> k.SEED2,
     acc |-> {}, subs |-> {}, reads |-> {}, ret |-> Zero64]

\* The branches with the 8-byte reads taken from length 7 on.
HbBranch_from7(len) ==
    IF len <= 16
    THEN IF len >= 7 THEN "front_back8"
         ELSE IF len >= 4 THEN "front_back4"
         ELSE IF len > 0 THEN "lo_mid_hi"
         ELSE "fold"
    ELSE "bulk"

\* The branch hash_bytes takes for an input of length len.
HbBranch(len) ==
    IF len <= 16
    THEN IF len >= 8 THEN "front_back8"
         ELSE IF len >= 4 THEN "front_back4"
         ELSE IF len > 0 THEN "lo_mid_hi"
         ELSE "fold"
    ELSE "bulk"

HbEnter(st) == [st EXCEPT !.pc = HbBranch(Len(st.bytes))]

\* 8 <= len <= 16: the first and the last 8 bytes.
HbFrontBack8(st) ==
    LET len == Len(st.bytes)
        t == Touch(Touch(Minus(st, len, 8), 0, 8), len - 8, len)
    IN  IF t.pc = "panic" THEN t
        ELSE [t EXCEPT !.s0 = Xor(@, FromLeBytes(Slice(st.bytes, 0, 8))),
                       !.s1 = Xor(@, FromLeBytes(Slice(st.bytes, len - 8, len))),
                       !.pc = "fold"]

\* 4 <= len < 8: the first and the last 4 bytes, each widened to u64.
HbFrontBack4(st) ==
    LET len == Len(st.bytes)
        t == Touch(Touch(Minus(st, len, 4), 0, 4), len - 4, len)
    IN  IF t.pc = "panic" THEN t
        ELSE [t EXCEPT !.s0 = Xor(@, AsU64(FromLeBytes(Slice(st.bytes, 0, 4)))),
                       !.s1 = Xor(@, AsU64(FromLeBytes(Slice(st.bytes, len - 4, len)))),
                       !.pc = "fold"]

\* The index of the middle byte read when 0 < len < 4.
HbMid(len) == len \div 2

\* 0 < len < 4: the first, the middle and the last byte.
HbLoMidHi(st) ==
    LET len == Len(st.bytes)
        m == HbMid(len)
        t == Touch(Touch(Touch(Minus(st, len, 1), 0, 1), m, m + 1), len - 1, len)
        lo == Slice(st.bytes, 0, 1)
        mid == Slice(st.bytes, m, m + 1)
        hi == Slice(st.bytes, len - 1, len)
    IN  IF t.pc = "panic" THEN t
        ELSE [t EXCEPT !.s0 = Xor(@, AsU64(lo)),
                       !.s1 = Xor(@, Or(ShlBytes(AsU64(hi), 1), AsU64(mid))),
                       !.pc = "fold"]

\* The loop stopping as soon as the next block would reach the suffix.
HbLoopCond_early(off, len) == off + 16 < len - 16

\* The test of the bulk loop.
HbLoopCond(off, len) == off < len - 16

\* len > 16: one test of the loop and, when it holds, one 16-byte block.
HbBulk(k, st) ==
    LET len == Len(st.bytes)
        off == st.off
        c == Minus(st, len, 16)
        t == Touch(Touch(c, off, off + 8), off + 8, off + 16)
        x == FromLeBytes(Slice(st.bytes, off, off + 8))
        y == FromLeBytes(Slice(st.bytes, off + 8, off + 16))
    IN  IF c.pc = "panic" THEN c
        ELSE IF ~HbLoopCond(off, len) THEN [c EXCEPT !.pc = "suffix"]
        ELSE IF t.pc = "panic" THEN t
        ELSE [t EXCEPT !.s0 = st.s1,
                       !.s1 = multiply_mix(Xor(st.s0, x), Xor(k.PTZC, y)),
                       !.off = off + 16]

\* len > 16, after the loop: the last 16 bytes.
HbSuffix(st) ==
    LET len == Len(st.bytes)
        t == Touch(Touch(Touch(Minus(st, len, 16), len - 16, len), len - 16, len - 8),
                   len - 8, len)
        suffix == Slice(st.bytes, len - 16, len)
    IN  IF t.pc = "panic" THEN t
        ELSE [t EXCEPT !.s0 = Xor(@, FromLeBytes(Slice(suffix, 0, 8))),
                       !.s1 = Xor(@, FromLeBytes(Slice(suffix, 8, 16))),
                       !.pc = "fold"]

\* multiply_mix(s0, s1) ^ len as u64
HbFold(st) ==
    [st EXCEPT !.ret = Xor(multiply_mix(st.s0, st.s1), NatU64(Len(st.bytes))),
               !.pc = "done"]

\* One step of a run.
HbStep(k, st) ==
    CASE st.pc = "start" -> HbEnter(st)
      [] st.pc = "front_back8" -> HbFrontBack8(st)
      [] st.pc = "front_back4" -> HbFrontBack4(st)
      [] st.pc = "lo_mid_hi" -> HbLoMidHi(st)
      [] st.pc = "bulk" -> HbBulk(k, st)
      [] st.pc = "suffix" -> HbSuffix(st)
      [] st.pc = "fold" -> HbFold(st)

RECURSIVE HbRun(_, _)
\* A run to its end: pc = "done" with the digest in ret, or pc = "panic".
HbRun(k, st) == IF st.pc \in {"done", "panic"} THEN st ELSE HbRun(k, HbStep(k, st))

\* hash_bytes(bytes) in the source file of variant v.
hash_bytes(v, bytes) == HbRun(HashBytesConsts(v), HbStart(HashBytesConsts(v), bytes))

(***************************************************************************)
(* MumAddHasher (exported as FxHasher): hash, rng, entropy_idx.            *)
(* A method that returns a value gives [self |-> the hasher after the      *)
(* call, ret |-> the value]; the others give the hasher after the call.    *)
(***************************************************************************)

\* #[derive(Default)]: every field zero.
MumAdd_default == [hash |-> Zero64, rng |-> Zero64, entropy_idx |-> 0]

\* with_seed seeding the random stream alone.
MumAdd_with_seed_rng_only(seed) ==
    [hash |-> Zero64, rng |-> AsU64(seed), entropy_idx |-> 0]

MumAdd_with_seed(seed) ==
    [hash |-> AsU64(seed), rng |-> AsU64(seed), entropy_idx |-> 0]

\* The last two statements of gen_rng, the index being reduced and rng updated.
MumAdd_gen_rng_ret(h) ==
    [self |-> [h EXCEPT !.entropy_idx = @ + 1], ret |-> h.rng]

\* gen_rng overwriting rng with the table word in place of adding it.
MumAdd_gen_rng_add_assign(h) ==
    MumAdd_gen_rng_ret([h EXCEPT !.rng = ENTROPY[h.entropy_idx + 1]])

\* self.rng = self.rng.wrapping_add(ENTROPY[self.entropy_idx])
MumAdd_gen_rng_add(h) ==
    MumAdd_gen_rng_ret([h EXCEPT !.rng = WrappingAdd(@, ENTROPY[h.entropy_idx + 1])])

\* The index reduced by one more than the length of the table.
MumAdd_gen_rng_reduce_by17(h) == [h EXCEPT !.entropy_idx = @ % 17]

\* self.entropy_idx %= 16
MumAdd_gen_rng_reduce(h) == [h EXCEPT !.entropy_idx = @ % 16]

MumAdd_gen_rng(h) == MumAdd_gen_rng_add(MumAdd_gen_rng_reduce(h))

\* self.hash = self.hash.wrapping_add(m), on the hasher a gen_rng call left.
AddInto(h, m) == [h EXCEPT !.hash = WrappingAdd(@, m)]

\* add_to_hash mixing x ^ rng, as double_add_to_hash does.
MumAdd_mix_in_xor(g, x) == AddInto(g.self, multiply_mix(Xor(x, g.ret), g.ret))

\* g is what self.gen_rng() gave.
MumAdd_mix_in(g, x) == AddInto(g.self, multiply_mix(x, g.ret))

MumAdd_add_to_hash(h, x) == MumAdd_mix_in(MumAdd_gen_rng(h), x)

\* g1 and g2 are what the two calls of self.gen_rng() gave, in order.
MumAdd_double_mix_in(g1, g2, x, y) ==
    AddInto(g2.self, multiply_mix(Xor(x, g1.ret), Xor(y, g2.ret)))

MumAdd_second_rng(g1, x, y) ==
    MumAdd_double_mix_in(g1, MumAdd_gen_rng(g1.self), x, y)

MumAdd_double_add_to_hash(h, x, y) == MumAdd_second_rng(MumAdd_gen_rng(h), x, y)

\* write taking the slice as one little-endian word, with no hash_bytes.
MumAdd_write_as_word(h, bytes) == MumAdd_add_to_hash(h, AsU64(FromLeBytes(bytes)))

MumAdd_write(h, bytes) == MumAdd_add_to_hash(h, hash_bytes("MumAdd", bytes).ret)

\* `i as i8 as u64`: the byte widened with its sign.
SignExtendU64(v) ==
    [i \in 1..8 |-> IF i <= Len(v) THEN v[i]
                    ELSE IF v[Len(v)] >= 128 THEN 255 ELSE 0]

MumAdd_write_u8_signed(h, i) == MumAdd_add_to_hash(h, SignExtendU64(i))

MumAdd_write_u8(h, i) == MumAdd_add_to_hash(h, AsU64(i))

MumAdd_write_u16(h, i) == MumAdd_add_to_hash(h, AsU64(i))

MumAdd_write_u32(h, i) == MumAdd_add_to_hash(h, AsU64(i))

MumAdd_write_u64(h, i) == MumAdd_add_to_hash(h, AsU64(i))

MumAdd_write_usize(h, i) == MumAdd_add_to_hash(h, AsU64(i))

MumAdd_write_u128(h, i) == MumAdd_double_add_to_hash(h, AsU64(i), HighU64(i))

\* The body is empty.
MumAdd_write_length_prefix(h, len) == h

\* A str is its UTF-8 bytes; as_bytes() is a view of them.
MumAdd_write_str(h, s) == MumAdd_write(h, s)

MumAdd_finish(h) == [self |-> h, ret |-> AsU64(h.hash)]

(***************************************************************************)
(* MultilinearHasher: hash, rng_a, rng_b.                                  *)
(***************************************************************************)

\* default() with the two stream seeds exchanged.
Multilinear_default_swapped ==
    [hash |-> Zero64, rng_a |-> Multilinear_SEED4, rng_b |-> Multilinear_SEED3]

Multilinear_default ==
    [hash |-> Zero64, rng_a |-> Multilinear_SEED3, rng_b |-> Multilinear_SEED4]

Multilinear_with_seed(seed) ==
    [hash |-> Zero64,
     rng_a |-> Xor(AsU64(seed), Multilinear_SEED3),
     rng_b |-> Xor(AsU64(seed), Multilinear_SEED4)]

\* The second statement of gen_rng and its return, rng_b being updated.
Multilinear_gen_rng_a(h, rng_a) == [self |-> [h EXCEPT !.rng_a = rng_a], ret |-> rng_a]

Multilinear_gen_rng_b(h) ==
    Multilinear_gen_rng_a(h, Xor(h.rng_a, RotateRight(h.rng_b, 27)))

Multilinear_gen_rng(h) ==
    Multilinear_gen_rng_b([h EXCEPT !.rng_b = WrappingAdd(h.rng_b, h.rng_a)])

\* add_to_hash multiplying by the drawn word as it is, without `| 1`.
Multilinear_mix_in_any(g, x) == AddInto(g.self, WrappingMul(x, g.ret))

\* g is what self.gen_rng() gave.
Multilinear_mix_in(g, x) == AddInto(g.self, WrappingMul(x, Or(g.ret, One64)))

\* add_to_hash with `| 1` applied to x, the drawn word taken as it is.
Multilinear_add_to_hash_or_x(h, x) ==
    AddInto(Multilinear_gen_rng(h).self,
            WrappingMul(Or(x, One64), Multilinear_gen_rng(h).ret))

Multilinear_add_to_hash(h, x) == Multilinear_mix_in(Multilinear_gen_rng(h), x)

Multilinear_write(h, bytes) ==
    Multilinear_add_to_hash(h, hash_bytes("Multilinear", bytes).ret)

Multilinear_write_u8(h, i) == Multilinear_add_to_hash(h, AsU64(i))

Multilinear_write_u16(h, i) == Multilinear_add_to_hash(h, AsU64(i))

Multilinear_write_u32(h, i) == Multilinear_add_to_hash(h, AsU64(i))

Multilinear_write_u64(h, i) == Multilinear_add_to_hash(h, AsU64(i))

Multilinear_write_usize(h, i) == Multilinear_add_to_hash(h, AsU64(i))

Multilinear_write_length_prefix(h, len) == h

Multilinear_write_str(h, s) == Multilinear_write(h, s)

Multilinear_finish(h) == [self |-> h, ret |-> AsU64(h.hash)]

(***************************************************************************)
(* PolyHasher: hash.                                                       *)
(***************************************************************************)

Poly_default == [hash |-> Zero64]

\* The seed is not used.
Poly_with_seed(seed) == [hash |-> Zero64]

Poly_add_to_hash(h, x) ==
    [h EXCEPT !.hash = WrappingMul(WrappingAdd(@, x), K)]

Poly_write(h, bytes) == Poly_add_to_hash(h, hash_bytes("Poly", bytes).ret)

Poly_write_u8(h, i) == Poly_add_to_hash(h, AsU64(i))

Poly_write_u16(h, i) == Poly_add_to_hash(h, AsU64(i))

Poly_write_u32(h, i) == Poly_add_to_hash(h, AsU64(i))

Poly_write_u64(h, i) == Poly_add_to_hash(h, AsU64(i))

Poly_write_usize(h, i) == Poly_add_to_hash(h, AsU64(i))

\* write_length_prefix hashing the length as the trait's default does.
Poly_write_length_prefix_hashed(h, len) == Poly_add_to_hash(h, AsU64(len))

Poly_write_length_prefix(h, len) == h

Poly_write_str(h, s) == Poly_write(h, s)

\* finish keeping the rotated value in the accumulator.
Poly_finish_in_place(h) ==
    [self |-> [h EXCEPT !.hash = RotateLeft(@, 20)], ret |-> RotateLeft(h.hash, 20)]

Poly_finish(h) == [self |-> h, ret |-> RotateLeft(h.hash, 20)]

(***************************************************************************)
(* The Hasher contract of the variant v.                                   *)
(***************************************************************************)

Default(v) ==
    CASE v = "MumAdd" -> MumAdd_default
      [] v = "Multilinear" -> Multilinear_default
      [] v = "Poly" -> Poly_default

WithSeed(v, seed) ==
    CASE v = "MumAdd" -> MumAdd_with_seed(seed)
      [] v = "Multilinear" -> Multilinear_with_seed(seed)
      [] v = "Poly" -> Poly_with_seed(seed)

HWrite(v, h, bytes) ==
    CASE v = "MumAdd" -> MumAdd_write(h, bytes)
      [] v = "Multilinear" -> Multilinear_write(h, bytes)
      [] v = "Poly" -> Poly_write(h, bytes)

HWriteStr(v, h, s) ==
    CASE v = "MumAdd" -> MumAdd_write_str(h, s)
      [] v = "Multilinear" -> Multilinear_write_str(h, s)
      [] v = "Poly" -> Poly_write_str(h, s)

HWriteU8(v, h, i) ==
    CASE v = "MumAdd" -> MumAdd_write_u8(h, i)
      [] v = "Multilinear" -> Multilinear_write_u8(h, i)
      [] v = "Poly" -> Poly_write_u8(h, i)

HWriteU16(v, h, i) ==
    CASE v = "MumAdd" -> MumAdd_write_u16(h, i)
      [] v = "Multilinear" -> Multilinear_write_u16(h, i)
      [] v = "Poly" -> Poly_write_u16(h, i)

HWriteU32(v, h, i) ==
    CASE v = "MumAdd" -> MumAdd_write_u32(h, i)
      [] v = "Multilinear" -> Multilinear_write_u32(h, i)
      [] v = "Poly" -> Poly_write_u32(h, i)

HWriteU64(v, h, i) ==
    CASE v = "MumAdd" -> MumAdd_write_u64(h, i)
      [] v = "Multilinear" -> Multilinear_write_u64(h, i)
      [] v = "Poly" -> Poly_write_u64(h, i)

HWriteUsize(v, h, i) ==
    CASE v = "MumAdd" -> MumAdd_write_usize(h, i)
      [] v = "Multilinear" -> Multilinear_write_usize(h, i)
      [] v = "Poly" -> Poly_write_usize(h, i)

HWriteLengthPrefix(v, h, len) ==
    CASE v = "MumAdd" -> MumAdd_write_length_prefix(h, len)
      [] v = "Multilinear" -> Multilinear_write_length_prefix(h, len)
      [] v = "Poly" -> Poly_write_length_prefix(h, len)

HFinish(v, h) ==
    CASE v = "MumAdd" -> MumAdd_finish(h)
      [] v = "Multilinear" -> Multilinear_finish(h)
      [] v = "Poly" -> Poly_finish(h)

\* How a hasher was built: default() or with_seed(seed).
Construct(v, c) == IF c.kind = "default" THEN Default(v) ELSE WithSeed(v, c.seed)

(***************************************************************************)
(* Bounds and the inputs drawn within them.                                *)
(***************************************************************************)

\* The number of calls made on one hasher.
MaxOps == 2

\* The longest input of hash_bytes that is stepped through.
MaxLen == 33

Max64 == U64(255, 255, 255, 255, 255, 255, 255, 255)

U8Vals == {<<0>>, <<255>>}

U16Vals == {Cast(i, 2) : i \in U8Vals} \cup {<<255, 255>>}

U32Vals == {Cast(i, 4) : i \in U16Vals} \cup {<<255, 255, 255, 255>>}

U64Vals == {Cast(i, 8) : i \in U16Vals} \cup {Max64}

UsizeVals == U64Vals

U128Vals == {Cast(<<0>>, 16), Max64 \o One64}

\* "uwu"
Uwu == <<117, 119, 117>>

\* The byte slices of the `bytes` test that hold only zeros.
ZeroSlices == {<<>>, <<0>>, <<0, 0, 0, 0, 0, 0>>}

ByteSlices == ZeroSlices \cup {[i \in 1..17 |-> i]}

StrVals == {Uwu}

LenVals == {NatU64(6)}

\* The seeds of with_seed in the twin runs that are built alike.
SeedVals == {One64}

CtorDefault == [kind |-> "default", seed |-> Zero64]

CtorSeed(seed) == [kind |-> "with_seed", seed |-> seed]

\* How the hasher and its twin are built: default() next to with_seed(0), or
\* both with the same seed.
CtorPairs ==
    {<<CtorDefault, CtorSeed(Zero64)>>} \cup {<<CtorSeed(s), CtorSeed(s)>> : s \in SeedVals}

\* The seed pairs of the test with_seed_actually_different.
TestedSeedPairs ==
    {<<NatU64(1), NatU64(2)>>, <<NatU64(42), NatU64(17)>>,
     <<NatU64(124436707), NatU64(99237)>>, <<Zero64, Max64>>}

\* 2^63
HighBit64 == U64(128, 0, 0, 0, 0, 0, 0, 0)

SeedPairs ==
    TestedSeedPairs \cup {<<Zero64, HighBit64>>, <<NatU64(5), Xor(NatU64(5), HighBit64)>>}

\* The inputs of hash_bytes of length len: zeros, 0xFF, and 1, 2, 3, ...
HbPatterns(len) ==
    {[i \in 1..len |-> 0], [i \in 1..len |-> 255], [i \in 1..len |-> i]}

HbInputs == UNION {HbPatterns(len) : len \in 0..MaxLen}

\* No run of hash_bytes is being stepped through.
HbIdle ==
    [bytes |-> <<>>, pc |-> "idle", off |-> 0, s0 |-> Zero64, s1 |-> Zero64,
     acc |-> {}, subs |-> {}, reads |-> {}, ret |-> Zero64]

\* The number of calls made on the MumAddHasher whose random stream is followed.
MaxCalls == 18

\* The call sequences hashed over and over by that hasher: one method each, and
\* a struct of five scalar fields.
RngPrograms ==
    {<<[name |-> "write_u8", arg |-> <<1>>]>>,
     <<[name |-> "write_u64", arg |-> Max64]>>,
     <<[name |-> "write_u128", arg |-> Max64 \o One64]>>,
     <<[name |-> "write", arg |-> <<0, 0, 0, 0, 0, 0>>]>>,
     <<[name |-> "write_str", arg |-> Uwu]>>,
     <<[name |-> "write_u16", arg |-> <<255, 255>>],
       [name |-> "write_u128", arg |-> Cast(<<0>>, 16)],
       [name |-> "write_u32", arg |-> <<0, 0, 0, 1>>],
       [name |-> "write_usize", arg |-> NatU64(7)],
       [name |-> "write_u128", arg |-> One64 \o Max64]>>}

\* How the hasher of a long run, and its twin, are built.
CtorVals == {CtorDefault, CtorSeed(One64), CtorSeed(Max64)}

\* The writes made alike on a hasher and its twin before the two part.
MaxPrefix == 2

\* The variants whose scalar write multiplies by an odd word.
OddVariants == {"Multilinear", "Poly"}

\* The 64-bit values written after the prefix: among them pairs that differ in
\* bit 63 alone, in bit 0 alone, and in every bit.
InjVals ==
    {Zero64, One64, HighBit64, Xor(One64, HighBit64), Max64, U64(0, 0, 0, 1, 0, 0, 0, 0)}

\* The zero-valued scalar writes made on one hasher.
MaxZeros == 20

\* No call of MumAddHasher is being stepped through.
RgIdle == [pc |-> "off"]

\* No call has been made yet.
OpNew == [name |-> "new", arg |-> <<>>]

\* No finish() has returned yet.
NoRet == <<>>

(***************************************************************************)
(* Spec: a hasher (a) takes up to MaxOps calls; its twin (b) is fed the    *)
(* same stream, every scalar through write_u64 and without the calls to    *)
(* write_length_prefix and finish.                                         *)
(***************************************************************************)

Init ==
    /\ variant \in Variants
    /\ \E c \in CtorPairs :
          /\ ctorA = c[1]
          /\ ctorB = c[2]
          /\ a = Construct(variant, c[1])
          /\ b = Construct(variant, c[2])
    /\ n = 0
    /\ op = OpNew
    /\ retA = NoRet
    /\ retB = NoRet
    /\ hb = HbIdle
    /\ rg = RgIdle

Write(bytes) ==
    /\ n < MaxOps
    /\ a' = HWrite(variant, a, bytes)
    /\ b' = HWrite(variant, b, bytes)
    /\ op' = [name |-> "write", arg |-> bytes]
    /\ n' = n + 1
    /\ UNCHANGED <<variant, ctorA, ctorB, retA, retB, hb, rg>>

WriteStr(s) ==
    /\ n < MaxOps
    /\ a' = HWriteStr(variant, a, s)
    /\ b' = HWrite(variant, b, s)
    /\ op' = [name |-> "write_str", arg |-> s]
    /\ n' = n + 1
    /\ UNCHANGED <<variant, ctorA, ctorB, retA, retB, hb, rg>>

WriteU8(i) ==
    /\ n < MaxOps
    /\ a' = HWriteU8(variant, a, i)
    /\ b' = HWriteU64(variant, b, AsU64(i))
    /\ op' = [name |-> "write_u8", arg |-> i]
    /\ n' = n + 1
    /\ UNCHANGED <<variant, ctorA, ctorB, retA, retB, hb, rg>>

WriteU16(i) ==
    /\ n < MaxOps
    /\ a' = HWriteU16(variant, a, i)
    /\ b' = HWriteU64(variant, b, AsU64(i))
    /\ op' = [name |-> "write_u16", arg |-> i]
    /\ n' = n + 1
    /\ UNCHANGED <<variant, ctorA, ctorB, retA, retB, hb, rg>>

WriteU32(i) ==
    /\ n < MaxOps
    /\ a' = HWriteU32(variant, a, i)
    /\ b' = HWriteU64(variant, b, AsU64(i))
    /\ op' = [name |-> "write_u32", arg |-> i]
    /\ n' = n + 1
    /\ UNCHANGED <<variant, ctorA, ctorB, retA, retB, hb, rg>>

WriteU64(i) ==
    /\ n < MaxOps
    /\ a' = HWriteU64(variant, a, i)
    /\ b' = HWriteU64(variant, b, i)
    /\ op' = [name |-> "write_u64", arg |-> i]
    /\ n' = n + 1
    /\ UNCHANGED <<variant, ctorA, ctorB, retA, retB, hb, rg>>

WriteUsize(i) ==
    /\ n < MaxOps
    /\ a' = HWriteUsize(variant, a, i)
    /\ b' = HWriteU64(variant, b, AsU64(i))
    /\ op' = [name |-> "write_usize", arg |-> i]
    /\ n' = n + 1
    /\ UNCHANGED <<variant, ctorA, ctorB, retA, retB, hb, rg>>

\* Only MumAddHasher defines write_u128.
WriteU128(i) ==
    /\ n < MaxOps
    /\ variant = "MumAdd"
    /\ a' = MumAdd_write_u128(a, i)
    /\ b' = MumAdd_write_u128(b, i)
    /\ op' = [name |-> "write_u128", arg |-> i]
    /\ n' = n + 1
    /\ UNCHANGED <<variant, ctorA, ctorB, retA, retB, hb, rg>>

WriteLengthPrefix(len) ==
    /\ n < MaxOps
    /\ a' = HWriteLengthPrefix(variant, a, len)
    /\ op' = [name |-> "write_length_prefix", arg |-> len]
    /\ n' = n + 1
    /\ UNCHANGED <<variant, ctorA, ctorB, b, retA, retB, hb, rg>>

Finish ==
    /\ n < MaxOps
    /\ a' = HFinish(variant, a).self
    /\ retA' = HFinish(variant, a).ret
    /\ op' = [name |-> "finish", arg |-> <<>>]
    /\ n' = n + 1
    /\ UNCHANGED <<variant, ctorA, ctorB, b, retB, hb, rg>>

Next ==
    \/ \E bytes \in ByteSlices : Write(bytes)
    \/ \E s \in StrVals : WriteStr(s)
    \/ \E i \in U8Vals : WriteU8(i)
    \/ \E i \in U16Vals : WriteU16(i)
    \/ \E i \in U32Vals : WriteU32(i)
    \/ \E i \in U64Vals : WriteU64(i)
    \/ \E i \in UsizeVals : WriteUsize(i)
    \/ \E i \in U128Vals : WriteU128(i)
    \/ \E len \in LenVals : WriteLengthPrefix(len)
    \/ Finish

Spec == Init /\ [][Next]_vars

(***************************************************************************)
(* SpecSeed: the test with_seed_actually_different, for every variant: two *)
(* hashers built with_seed(sa) and with_seed(sb) hash the same byte x.     *)
(***************************************************************************)

InitSeed ==
    /\ variant \in Variants
    /\ \E p \in SeedPairs :
          /\ ctorA = CtorSeed(p[1])
          /\ ctorB = CtorSeed(p[2])
          /\ a = WithSeed(variant, p[1])
          /\ b = WithSeed(variant, p[2])
    /\ n = 0
    /\ op = OpNew
    /\ retA = NoRet
    /\ retB = NoRet
    /\ hb = HbIdle
    /\ rg = RgIdle

\* x.hash(&mut a); x.hash(&mut b) for a u8 x: write_u8(x) on each.
SeedWriteU8(x) ==
    /\ op = OpNew
    /\ a' = HWriteU8(variant, a, <<x>>)
    /\ b' = HWriteU8(variant, b, <<x>>)
    /\ op' = [name |-> "write_u8", arg |-> <<x>>]
    /\ n' = n + 1
    /\ UNCHANGED <<variant, ctorA, ctorB, retA, retB, hb, rg>>

\* a.finish(), b.finish()
SeedFinish ==
    /\ op.name = "write_u8"
    /\ a' = HFinish(variant, a).self
    /\ b' = HFinish(variant, b).self
    /\ retA' = HFinish(variant, a).ret
    /\ retB' = HFinish(variant, b).ret
    /\ op' = [name |-> "finish", arg |-> op.arg]
    /\ n' = n + 1
    /\ UNCHANGED <<variant, ctorA, ctorB, hb, rg>>

NextSeed ==
    \/ \E x \in Byte : SeedWriteU8(x)
    \/ SeedFinish

SpecSeed == InitSeed /\ [][NextSeed]_vars

(***************************************************************************)
(* SpecHB: one call of hash_bytes, stepped through.                        *)
(***************************************************************************)

InitHB ==
    /\ variant \in Variants
    /\ ctorA = CtorDefault
    /\ ctorB = CtorDefault
    /\ a = Default(variant)
    /\ b = Default(variant)
    /\ n = 0
    /\ op = OpNew
    /\ retA = NoRet
    /\ retB = NoRet
    /\ \E bytes \in HbInputs : hb = HbStart(HashBytesConsts(variant), bytes)
    /\ rg = RgIdle

EnterStep ==
    /\ hb.pc = "start"
    /\ hb' = HbEnter(hb)
    /\ UNCHANGED <<variant, ctorA, ctorB, a, b, n, op, retA, retB, rg>>

FrontBack8Step ==
    /\ hb.pc = "front_back8"
    /\ hb' = HbFrontBack8(hb)
    /\ UNCHANGED <<variant, ctorA, ctorB, a, b, n, op, retA, retB, rg>>

FrontBack4Step ==
    /\ hb.pc = "front_back4"
    /\ hb' = HbFrontBack4(hb)
    /\ UNCHANGED <<variant, ctorA, ctorB, a, b, n, op, retA, retB, rg>>

LoMidHiStep ==
    /\ hb.pc = "lo_mid_hi"
    /\ hb' = HbLoMidHi(hb)
    /\ UNCHANGED <<variant, ctorA, ctorB, a, b, n, op, retA, retB, rg>>

BulkStep ==
    /\ hb.pc = "bulk"
    /\ hb' = HbBulk(HashBytesConsts(variant), hb)
    /\ UNCHANGED <<variant, ctorA, ctorB, a, b, n, op, retA, retB, rg>>

SuffixStep ==
    /\ hb.pc = "suffix"
    /\ hb' = HbSuffix(hb)
    /\ UNCHANGED <<variant, ctorA, ctorB, a, b, n, op, retA, retB, rg>>

FoldStep ==
    /\ hb.pc = "fold"
    /\ hb' = HbFold(hb)
    /\ UNCHANGED <<variant, ctorA, ctorB, a, b, n, op, retA, retB, rg>>

NextHB ==
    \/ EnterStep
    \/ FrontBack8Step
    \/ FrontBack4Step
    \/ LoMidHiStep
    \/ BulkStep
    \/ SuffixStep
    \/ FoldStep

SpecHB == InitHB /\ [][NextHB]_vars

(***************************************************************************)
(* SpecRng: one MumAddHasher hashes a call sequence over and over, each    *)
(* call stepped through its gen_rng calls.  rg holds the call in progress: *)
(* the operands x and y, the words drawn for it (got), the number of       *)
(* gen_rng calls that have completed since construction (k) and that       *)
(* number when the call began (k0).                                        *)
(***************************************************************************)

InitRng ==
    /\ variant = "MumAdd"
    /\ \E c \in CtorVals :
          /\ ctorA = c
          /\ ctorB = c
          /\ a = Construct("MumAdd", c)
          /\ b = Construct("MumAdd", c)
    /\ n = 0
    /\ op = OpNew
    /\ retA = NoRet
    /\ retB = NoRet
    /\ hb = HbIdle
    /\ \E prog \in RngPrograms :
          rg = [pc |-> "ready", prog |-> prog, fn |-> "", x |-> Zero64, y |-> Zero64,
                got |-> <<>>, k |-> 0, k0 |-> 0]

\* The call the program makes next.
RngNextCall == rg.prog[(n % Len(rg.prog)) + 1]

\* The u64 a one-word method passes to add_to_hash.
MumAdd_operand(c) ==
    IF c.name \in {"write", "write_str"} THEN hash_bytes("MumAdd", c.arg).ret
    ELSE AsU64(c.arg)

\* write, write_str, write_u8 .. write_usize: self.add_to_hash(word).
RngAddToHash ==
    /\ rg.pc = "ready"
    /\ n < MaxCalls
    /\ RngNextCall.name # "write_u128"
    /\ rg' = [rg EXCEPT !.pc = "reduce", !.fn = "add_to_hash",
                        !.x = MumAdd_operand(RngNextCall), !.y = Zero64,
                        !.got = <<>>, !.k0 = rg.k]
    /\ op' = RngNextCall
    /\ n' = n + 1
    /\ UNCHANGED <<variant, ctorA, ctorB, a, b, retA, retB, hb>>

\* write_u128: self.double_add_to_hash(i as u64, (i >> 64) as u64).
RngDoubleAddToHash ==
    /\ rg.pc = "ready"
    /\ n < MaxCalls
    /\ RngNextCall.name = "write_u128"
    /\ rg' = [rg EXCEPT !.pc = "reduce", !.fn = "double_add_to_hash",
                        !.x = AsU64(RngNextCall.arg), !.y = HighU64(RngNextCall.arg),
                        !.got = <<>>, !.k0 = rg.k]
    /\ op' = RngNextCall
    /\ n' = n + 1
    /\ UNCHANGED <<variant, ctorA, ctorB, a, b, retA, retB, hb>>

\* gen_rng: self.entropy_idx %= 16
RngReduce ==
    /\ rg.pc = "reduce"
    /\ a' = MumAdd_gen_rng_reduce(a)
    /\ rg' = [rg EXCEPT !.pc = "add"]
    /\ UNCHANGED <<variant, ctorA, ctorB, b, n, op, retA, retB, hb>>

\* The gen_rng calls the method in progress makes.
RngCallsOf(fn) == IF fn = "double_add_to_hash" THEN 2 ELSE 1

\* gen_rng: the rest of it, ENTROPY[self.entropy_idx] being read; the caller
\* draws again or mixes.
RngAdd ==
    /\ rg.pc = "add"
    /\ a' = MumAdd_gen_rng_add(a).self
    /\ rg' = [rg EXCEPT !.got = Append(@, MumAdd_gen_rng_add(a).ret),
                        !.k = @ + 1,
                        !.pc = IF Len(rg.got) + 1 < RngCallsOf(rg.fn)
                               THEN "reduce" ELSE "mix"]
    /\ UNCHANGED <<variant, ctorA, ctorB, b, n, op, retA, retB, hb>>

\* self.hash = self.hash.wrapping_add(multiply_mix(..)), and the method returns.
RngMix ==
    /\ rg.pc = "mix"
    /\ a' = IF rg.fn = "double_add_to_hash"
            THEN MumAdd_double_mix_in([self |-> a, ret |-> rg.got[1]],
                                      [self |-> a, ret |-> rg.got[2]], rg.x, rg.y)
            ELSE MumAdd_mix_in([self |-> a, ret |-> rg.got[1]], rg.x)
    /\ rg' = [rg EXCEPT !.pc = "ready"]
    /\ UNCHANGED <<variant, ctorA, ctorB, b, n, op, retA, retB, hb>>

NextRng ==
    \/ RngAddToHash
    \/ RngDoubleAddToHash
    \/ RngReduce
    \/ RngAdd
    \/ RngMix

SpecRng == InitRng /\ [][NextRng]_vars

(***************************************************************************)
(* SpecInj: a MultilinearHasher or PolyHasher and its twin are built alike *)
(* and take the same writes; then the one takes write_u64(x), the twin     *)
(* write_u64(y) with y # x (op.arg and op.argB), and both finish.          *)
(***************************************************************************)

InitInj ==
    /\ variant \in OddVariants
    /\ \E c \in CtorVals :
          /\ ctorA = c
          /\ ctorB = c
          /\ a = Construct(variant, c)
          /\ b = Construct(variant, c)
    /\ n = 0
    /\ op = OpNew
    /\ retA = NoRet
    /\ retB = NoRet
    /\ hb = HbIdle
    /\ rg = RgIdle

\* The two have parted: the last write gave them different values.
Parted == "argB" \in DOMAIN op

InjWrite(bytes) ==
    /\ ~Parted
    /\ n < MaxPrefix
    /\ a' = HWrite(variant, a, bytes)
    /\ b' = HWrite(variant, b, bytes)
    /\ op' = [name |-> "write", arg |-> bytes]
    /\ n' = n + 1
    /\ UNCHANGED <<variant, ctorA, ctorB, retA, retB, hb, rg>>

InjWriteU64(i) ==
    /\ ~Parted
    /\ n < MaxPrefix
    /\ a' = HWriteU64(variant, a, i)
    /\ b' = HWriteU64(variant, b, i)
    /\ op' = [name |-> "write_u64", arg |-> i]
    /\ n' = n + 1
    /\ UNCHANGED <<variant, ctorA, ctorB, retA, retB, hb, rg>>

InjPart(x, y) ==
    /\ ~Parted
    /\ x # y
    /\ a' = HWriteU64(variant, a, x)
    /\ b' = HWriteU64(variant, b, y)
    /\ op' = [name |-> "write_u64", arg |-> x, argB |-> y]
    /\ n' = n + 1
    /\ UNCHANGED <<variant, ctorA, ctorB, retA, retB, hb, rg>>

InjFinish ==
    /\ Parted
    /\ op.name = "write_u64"
    /\ a' = HFinish(variant, a).self
    /\ b' = HFinish(variant, b).self
    /\ retA' = HFinish(variant, a).ret
    /\ retB' = HFinish(variant, b).ret
    /\ op' = [op EXCEPT !.name = "finish"]
    /\ n' = n + 1
    /\ UNCHANGED <<variant, ctorA, ctorB, hb, rg>>

NextInj ==
    \/ \E bytes \in StrVals : InjWrite(bytes)
    \/ \E i \in {One64, Max64} : InjWriteU64(i)
    \/ \E x \in InjVals, y \in InjVals : InjPart(x, y)
    \/ InjFinish

SpecInj == InitInj /\ [][NextInj]_vars

(***************************************************************************)
(* SpecZero: a freshly built hasher takes scalar writes of the value 0, of *)
(* any widths, and finish() at any time; its twin is built alike and takes *)
(* no call.                                                                *)
(***************************************************************************)

InitZero ==
    /\ variant \in Variants
    /\ \E c \in CtorVals \cup {CtorSeed(HighBit64)} :
          /\ ctorA = c
          /\ ctorB = c
          /\ a = Construct(variant, c)
          /\ b = Construct(variant, c)
    /\ n = 0
    /\ op = OpNew
    /\ retA = NoRet
    /\ retB = NoRet
    /\ hb = HbIdle
    /\ rg = RgIdle

ZeroWriteU8 ==
    /\ n < MaxZeros
    /\ a' = HWriteU8(variant, a, <<0>>)
    /\ op' = [name |-> "write_u8", arg |-> <<0>>]
    /\ n' = n + 1
    /\ UNCHANGED <<variant, ctorA, ctorB, b, retA, retB, hb, rg>>

ZeroWriteU16 ==
    /\ n < MaxZeros
    /\ a' = HWriteU16(variant, a, <<0, 0>>)
    /\ op' = [name |-> "write_u16", arg |-> <<0, 0>>]
    /\ n' = n + 1
    /\ UNCHANGED <<variant, ctorA, ctorB, b, retA, retB, hb, rg>>

ZeroWriteU32 ==
    /\ n < MaxZeros
    /\ a' = HWriteU32(variant, a, <<0, 0, 0, 0>>)
    /\ op' = [name |-> "write_u32", arg |-> <<0, 0, 0, 0>>]
    /\ n' = n + 1
    /\ UNCHANGED <<variant, ctorA, ctorB, b, retA, retB, hb, rg>>

ZeroWriteU64 ==
    /\ n < MaxZeros
    /\ a' = HWriteU64(variant, a, Zero64)
    /\ op' = [name |-> "write_u64", arg |-> Zero64]
    /\ n' = n + 1
    /\ UNCHANGED <<variant, ctorA, ctorB, b, retA, retB, hb, rg>>

ZeroWriteUsize ==
    /\ n < MaxZeros
    /\ a' = HWriteUsize(variant, a, Zero64)
    /\ op' = [name |-> "write_usize", arg |-> Zero64]
    /\ n' = n + 1
    /\ UNCHANGED <<variant, ctorA, ctorB, b, retA, retB, hb, rg>>

\* finish() on the hasher; the count of writes stays.
ZeroFinish ==
    /\ op.name # "finish"
    /\ a' = HFinish(variant, a).self
    /\ retA' = HFinish(variant, a).ret
    /\ op' = [name |-> "finish", arg |-> <<>>]
    /\ UNCHANGED <<variant, ctorA, ctorB, b, n, retB, hb, rg>>

NextZero ==
    \/ ZeroWriteU8
    \/ ZeroWriteU16
    \/ ZeroWriteU32
    \/ ZeroWriteU64
    \/ ZeroWriteUsize
    \/ ZeroFinish

SpecZero == InitZero /\ [][NextZero]_vars

(***************************************************************************)
(* Properties.                                                             *)
(***************************************************************************)

ScalarNames == {"write_u8", "write_u16", "write_u32", "write_u64", "write_usize"}

IsZero(v) == \A i \in 1..Len(v) : v[i] = 0

\* The digest finish() would return now.
DigestA == HFinish(variant, a).ret

DigestB == HFinish(variant, b).ret

\* C1, as stated: MumAddHasher built with any two different seeds gives
\* different digests for every single byte x.
C1_AnySeedsDiffer ==
    (variant = "MumAdd" /\ op.name = "finish" /\ ctorA.seed # ctorB.seed)
        => retA # retB

\* C1, amended: MumAddHasher built with the two seeds of a pair of the test
\* with_seed_actually_different gives different digests for every single
\* byte x in 0..=255.
C1_TestedSeedsDiffer ==
    (variant = "MumAdd" /\ op.name = "finish"
        /\ <<ctorA.seed, ctorB.seed>> \in TestedSeedPairs)
        => retA # retB

C1_Witness ==
    /\ variant = "MumAdd"
    /\ op = [name |-> "finish", arg |-> <<255>>]
    /\ <<ctorA.seed, ctorB.seed>> = <<Zero64, Max64>>
    /\ retA # NoRet
    /\ retA # retB

\* C2: MultilinearHasher and PolyHasher built with two different seeds give
\* different digests for every single byte x, x = 0 included.
C2_SeedsDiffer ==
    (variant \in {"Multilinear", "Poly"} /\ op.name = "finish"
        /\ ctorA.seed # ctorB.seed)
        => retA # retB

\* C3: finish() leaves every field of the hasher as it was, a second
\* finish() right after it returns the same value, and the writes after a
\* finish() lead to the state of the twin that never called finish().
C3_FinishReadOnly ==
    [][/\ op'.name = "finish" => (a' = a /\ retA' = DigestA)
       /\ (op.name = "finish" /\ op'.name = "finish") => retA' = retA
       /\ (op.name = "finish" /\ a = b) => a' = b']_vars

C3_Witness ==
    /\ n = 2
    /\ retA # NoRet
    /\ op.name = "write"
    /\ a # Construct(variant, ctorA)
    /\ a = b

\* C4: every slice and index expression of hash_bytes lies within the
\* input, no usize subtraction goes below zero, and so no run panics.
C4_InBounds ==
    /\ hb.pc # "panic"
    /\ \A r \in hb.acc : 0 <= r[1] /\ r[1] <= r[2] /\ r[2] <= Len(hb.bytes)
    /\ \A d \in hb.subs : d >= 0

C4_Witness ==
    /\ hb.pc = "done"
    /\ Len(hb.bytes) = 17
    /\ hb.acc = {<<0, 8>>, <<8, 16>>, <<1, 17>>, <<1, 9>>, <<9, 17>>}
    /\ hb.subs = {1}

\* C5: a scalar write depends on the value alone: from equal states,
\* write_u8/u16/u32/u64/usize(v) on the hasher and write_u64(v as u64) on its
\* twin lead to equal states and equal digests.
C5_WidthIndependent ==
    [][(op'.name \in ScalarNames /\ a = b)
          => (a' = b' /\ HFinish(variant, a').ret = HFinish(variant, b').ret)]_vars

C5_Witness ==
    /\ n = 2
    /\ op = [name |-> "write_u8", arg |-> <<255>>]
    /\ a # Construct(variant, ctorA)
    /\ a = b

\* C6: default() builds the state with_seed(0) builds, and after the same
\* writes the two hashers are in the same state with the same digest.
C6_DefaultIsSeedZero ==
    (ctorA.kind = "default" /\ ctorB = CtorSeed(Zero64))
        => (a = b /\ DigestA = DigestB)

C6_Witness ==
    /\ ctorA.kind = "default"
    /\ ctorB = CtorSeed(Zero64)
    /\ n = 2
    /\ op.name = "write"
    /\ a # Default(variant)
    /\ a = b

\* C7: write_length_prefix(len) changes no field of the hasher, and the writes
\* after it lead to the state of the twin that never called it.
C7_LengthPrefixNoOp ==
    [][/\ op'.name = "write_length_prefix" => a' = a
       /\ (op.name = "write_length_prefix" /\ a = b) => a' = b']_vars

C7_Witness ==
    /\ n = 2
    /\ op.name = "write_length_prefix"
    /\ a # Construct(variant, ctorA)
    /\ a = b

ScalarZeroDigest(v) == HFinish(v, HWriteU8(v, Default(v), <<0>>)).ret

SliceDigest(v, bytes) == HFinish(v, HWrite(v, Default(v), bytes)).ret

C10_EveryByteRead ==
    (hb.pc = "done" /\ Len(hb.bytes) >= 1)
        => hb.reads = 0..(Len(hb.bytes) - 1)

C10_Witness ==
    /\ hb.pc = "done"
    /\ Len(hb.bytes) = 33
    /\ hb.off = 32
    /\ hb.reads = 0..32

\* The sum of ENTROPY[i mod 16] over i < k, modulo 2^64.
RECURSIVE EntropySum(_)
EntropySum(k) ==
    IF k = 0 THEN Zero64
    ELSE WrappingAdd(EntropySum(k - 1), ENTROPY[((k - 1) % 16) + 1])

\* The seed the followed hasher was built with (default() leaves rng 0).
RngSeed == ctorA.seed

\* The draws a call of the named method is said to make.
DrawsOf(name) == IF name = "write_u128" THEN 2 ELSE 1

\* C11: MumAddHasher's random stream is a running sum over the cyclic table.
\* When a call has returned it has drawn exactly one word, write_u128 exactly
\* two; the i-th draw (i = the draws completed before it) reads
\* ENTROPY[i mod 16] with an index below 16; and after k draws
\* rng = seed + sum of ENTROPY[i mod 16] over i < k, which is
\* (seed + the sum over i < k mod 16) + sum(ENTROPY) * (k div 16).
C11_RunningSum ==
    /\ (rg.pc = "ready" /\ op # OpNew) => rg.k - rg.k0 = DrawsOf(op.name)
    /\ rg.pc = "add" => (a.entropy_idx = rg.k % 16 /\ a.entropy_idx < 16)
    /\ a.rng = WrappingAdd(RngSeed, EntropySum(rg.k))
    /\ a.rng = WrappingAdd(WrappingAdd(RngSeed, EntropySum(rg.k % 16)),
                           WrappingMul(EntropySum(16), NatU64(rg.k \div 16)))

\* C11's case: a write_u128 whose two draws straddle the end of the table (the
\* 16th and the 17th draw) has returned, on a hasher built with a seed.
C11_Witness ==
    /\ rg.pc = "ready"
    /\ op.name = "write_u128"
    /\ rg.k0 = 15
    /\ rg.k = 17
    /\ RngSeed # Zero64

\* C12 as stated: in every state of MumAddHasher, 0 <= entropy_idx < 16.
C12_IdxBelow16 == 0 <= a.entropy_idx /\ a.entropy_idx < 16

\* C12: in every state of MumAddHasher 0 <= entropy_idx <= 16; it is below 16
\* whenever gen_rng indexes ENTROPY with it, and it is 16 only between the
\* 16th, 32nd, ... draw and the next call of gen_rng.
C12_IdxAtMost16 ==
    /\ 0 <= a.entropy_idx
    /\ a.entropy_idx <= 16
    /\ rg.pc = "add" => a.entropy_idx < 16
    /\ a.entropy_idx = 16 => (rg.k > 0 /\ rg.k % 16 = 0 /\ rg.pc # "add")

\* C12's case: the 16th draw is done, the write that made it has returned, and
\* the field is 16.
C12_Witness ==
    /\ rg.pc = "ready"
    /\ rg.k = 16
    /\ a.entropy_idx = 16

\* The least significant bit of a word is set.
IsOdd(x) == x[1] % 2 = 1

\* The word the next scalar write of MultilinearHasher or PolyHasher multiplies by.
Multiplier ==
    IF variant = "Multilinear" THEN Or(Multilinear_gen_rng(a).ret, One64) ELSE K

\* C13: in MultilinearHasher and PolyHasher the multiplier of a write is odd;
\* a hasher and its twin are in the same state until they part, and once one
\* has taken write_u64(x) and the other write_u64(y), x # y, their
\* accumulators differ, the digests finish() would return differ, and the
\* digests finish() has returned differ.
C13_OddMultiplierInjective ==
    /\ IsOdd(Multiplier)
    /\ ~Parted => a = b
    /\ Parted => /\ a.hash # b.hash
                 /\ DigestA # DigestB
                 /\ op.name = "finish" => retA # retB

\* C13's case: after a prefix, the two took values that differ in bit 63 alone,
\* and finish() has returned on both.
C13_Witness ==
    /\ Parted
    /\ op.name = "finish"
    /\ n = MaxPrefix + 2
    /\ op.argB = Xor(op.arg, HighBit64)
    /\ retA # NoRet
    /\ retB # NoRet

\* What the claim gives as the digest of the fresh hasher: the seed for
\* MumAddHasher (0 for default()), 0 for the other two.
FreshDigest == IF variant = "MumAdd" THEN AsU64(ctorA.seed) ELSE Zero64

\* The random-stream fields of the hasher h of the variant v.
RngState(v, h) ==
    CASE v = "MumAdd" -> <<h.rng, h.entropy_idx>>
      [] v = "Multilinear" -> <<h.rng_a, h.rng_b>>
      [] v = "Poly" -> <<>>

\* C14: after any number of scalar writes of 0 on a fresh hasher, of whatever
\* widths, finish() gives the digest of the fresh hasher (the untouched twin),
\* which is the seed for MumAddHasher and 0 for the other two; and every such
\* write changes rng and entropy_idx of MumAddHasher, changes (rng_a, rng_b)
\* of MultilinearHasher, and leaves PolyHasher as it was.
C14_ScalarZerosInvisible ==
    /\ [](/\ DigestA = DigestB
          /\ DigestA = FreshDigest
          /\ op.name = "finish" => retA = FreshDigest)
    /\ [][op'.name \in ScalarNames =>
            CASE variant = "MumAdd" ->
                    a'.rng # a.rng /\ a'.entropy_idx # a.entropy_idx
              [] variant = "Multilinear" ->
                    RngState(variant, a') # RngState(variant, a)
              [] variant = "Poly" -> a' = a]_vars

\* C14's case: MumAddHasher::with_seed(2^63) has taken MaxZeros zero writes and
\* finish() has then returned the seed.
C14_Witness ==
    /\ variant = "MumAdd"
    /\ ctorA = CtorSeed(HighBit64)
    /\ n = MaxZeros
    /\ op.name = "finish"
    /\ retA = HighBit64

====
